---- MODULE Spec2Model ----
(***************************************************************************)
(* Model of src/lightstreamer_client/__init__.py: LightStreamerClient      *)
(* (session handshake, stream thread, rebind, control requests) and        *)
(* LightStreamerSubscription (update decoding).                            *)
(*                                                                         *)
(* Text is a sequence of one-character strings, so that rstrip, split,     *)
(* startswith and int() are computed as Python computes them.              *)
(*                                                                         *)
(* Threads of control: the caller (one thread, one public method at a      *)
(* time) and the stream threads started by _handle_stream.  A step of the  *)
(* model is the code a thread runs between two blocking calls (urlopen,    *)
(* readline, Thread.join); the server decides what each blocking call      *)
(* returns.  The caller starts connect() only while no stream thread of    *)
(* the client is alive (one session per client at a time).                 *)
(***************************************************************************)
EXTENDS Integers, Sequences, FiniteSets, TLC

\* ---------------------------------------------------------------- bounds
MaxConnects == 2
MaxBinds == 1
MaxKey == 2
MaxTokens == 2
\* _decode is examined on every token of at most MaxTokenLen characters.
MaxTokenLen == 3

\* ------------------------------------------------------------------ text
WHITESPACE == {" ", "\t", "\r", "\n"}
CRLF == <<"\r", "\n">>
DIGITS == {"0", "1", "2", "3", "4", "5", "6", "7", "8", "9"}

PROBE_CMD == <<"P", "R", "O", "B", "E">>
END_CMD == <<"E", "N", "D">>
LOOP_CMD == <<"L", "O", "O", "P">>
ERROR_CMD == <<"E", "R", "R", "O", "R">>
SYNC_ERROR_CMD == <<"S", "Y", "N", "C", " ", "E", "R", "R", "O", "R">>
OK_CMD == <<"O", "K">>
PREAMBLE == <<"P", "r", "e", "a", "m", "b", "l", "e">>
OP_ADD == "add"
OP_DELETE == "delete"
OP_DESTROY == "destroy"
SESSION_ID == <<"S", "e", "s", "s", "i", "o", "n", "I", "d">>
CONTROL_ADDRESS == <<"C", "o", "n", "t", "r", "o", "l", "A", "d", "d", "r", "e", "s", "s">>

\* What a blocking call gives when it raises instead of returning.
RAISED == <<"<exception>">>
\* Python's None where a text value is expected.
NONE == <<"<None>">>
\* self._ls_url, and self._control_url before _set_control_link_url has run.
LS_URL == <<"<ls_url>">>
NO_ATTR == <<"<unset>">>

\* str.startswith(p)
StartsWith(s, p) == Len(s) >= Len(p) /\ SubSeq(s, 1, Len(p)) = p

\* str.rstrip(chars)
RECURSIVE RStrip(_, _)
RStrip(s, chars) ==
    IF s /= <<>> /\ s[Len(s)] \in chars THEN RStrip(SubSeq(s, 1, Len(s) - 1), chars) ELSE s

\* str.strip(): leading and trailing whitespace removed
RECURSIVE LStrip(_, _)
LStrip(s, chars) ==
    IF s /= <<>> /\ s[1] \in chars THEN LStrip(Tail(s), chars) ELSE s

Strip(s) == LStrip(RStrip(s, WHITESPACE), WHITESPACE)

\* Position of the first occurrence of the character sep in s, 0 if none.
RECURSIVE Find(_, _, _)
Find(s, sep, i) ==
    IF i > Len(s) THEN 0 ELSE IF s[i] = sep THEN i ELSE Find(s, sep, i + 1)

\* str.split(sep, 1): at most one split
Split1(s, sep) ==
    LET i == Find(s, sep, 1)
    IN IF i = 0 THEN <<s>> ELSE <<SubSeq(s, 1, i - 1), SubSeq(s, i + 1, Len(s))>>

\* str.split(sep): every occurrence splits
RECURSIVE Split(_, _)
Split(s, sep) ==
    LET i == Find(s, sep, 1)
    IN IF i = 0 THEN <<s>> ELSE <<SubSeq(s, 1, i - 1)>> \o Split(SubSeq(s, i + 1, Len(s)), sep)

DigitValue(c) ==
    CASE c = "0" -> 0 [] c = "1" -> 1 [] c = "2" -> 2 [] c = "3" -> 3 [] c = "4" -> 4
      [] c = "5" -> 5 [] c = "6" -> 6 [] c = "7" -> 7 [] c = "8" -> 8 [] c = "9" -> 9

RECURSIVE DigitsValue(_, _)
DigitsValue(s, acc) ==
    IF s = <<>> THEN acc ELSE DigitsValue(Tail(s), 10 * acc + DigitValue(s[1]))

\* int(s): surrounding whitespace and one sign are accepted, then digits only.
IntBody(s) ==
    LET t == Strip(s)
    IN IF t /= <<>> /\ t[1] \in {"-", "+"} THEN Tail(t) ELSE t

IsInt(s) == IntBody(s) /= <<>> /\ \A i \in 1..Len(IntBody(s)) : IntBody(s)[i] \in DIGITS

ParseInt(s) ==
    LET t == Strip(s)
    IN IF t[1] = "-" THEN 0 - DigitsValue(IntBody(s), 0) ELSE DigitsValue(IntBody(s), 0)

\* dict helpers
EmptyDict == << >>
Put(d, k, v) == [x \in (DOMAIN d) \cup {k} |-> IF x = k THEN v ELSE d[x]]
Del(d, k) == [x \in (DOMAIN d) \ {k} |-> d[x]]

\* ------------------------------------------------- LightStreamerSubscription
\* A faulty variant of notify_new_values, for a class that ignores the flag
\* and merges every update; C11_NewValuesOnly must tell it from
\* notify_new_values.
notify_new_values_Ignored(s) == FALSE

\* The Subscription objects the caller creates: two items' worth of schema is
\* not needed to decode, one item and two fields are.  subA merges
\* (notify_new_values = False, the default), subB notifies new values only.
Subs == {"subA", "subB"}
item_names(s) == <<"i1">>
field_names(s) == <<"f1", "f2">>
notify_new_values(s) == s = "subB"

\* Python sequence indexing seq[idx], 0-based, negative indices count from the end.
PyIndexOk(seq, idx) == (idx >= 0 /\ idx < Len(seq)) \/ (idx < 0 /\ idx >= 0 - Len(seq))
PyIndex(seq, idx) == IF idx >= 0 THEN seq[idx + 1] ELSE seq[Len(seq) + idx + 1]

\* dict.get(k): None when missing
Get(d, k) == IF k \in DOMAIN d THEN d[k] ELSE NONE

Min(a, b) == IF a <= b THEN a ELSE b

\* A faulty variant of _decode, which looks for a marker character before it
\* compares with the one-character tokens; C19_Decode must tell it from
\* _decode.
_decode_PrefixFirst(value, last) ==
    IF value = <<>> THEN last
    ELSE IF value[1] \in {"#", "$"} THEN Tail(value)
    ELSE value

\* _decode(value, last), lines 60-69.
_decode(value, last) ==
    IF value = <<"$">> THEN <<>>
    ELSE IF value = <<"#">> THEN NONE
    ELSE IF value = <<>> THEN last
    ELSE IF value[1] \in {"#", "$"} THEN Tail(value)
    ELSE value

\* dict(list(zip(self.field_names, tokens[1:]))): field name -> raw token,
\* for as many fields as there are tokens after the position.
Zipped(s, tokens) ==
    LET n == Min(Len(field_names(s)), Len(tokens) - 1)
    IN [k \in {field_names(s)[i] : i \in 1..n} |->
           tokens[1 + (CHOOSE i \in 1..n : field_names(s)[i] = k)]]

NoEvent == [sub |-> "none", pos |-> 0, name |-> "", values |-> EmptyDict]

\* notify_update(item_line) on subscription s whose _items_map is imap:
\* exc is the exception it raises ("" if none), imap the _items_map after the
\* call, event the item_info passed to the listeners (NoEvent if none was).
\* Lines 80-108, once tokens[0] has been read as the integer item_pos.
NotifyItem(s, imap, tokens, item_pos) ==
    IF ~PyIndexOk(item_names(s), item_pos - 1)
    THEN [exc |-> "IndexError", imap |-> imap, event |-> NoEvent]
    ELSE IF notify_new_values(s)
    THEN [exc |-> "", imap |-> imap,
          event |-> [sub |-> s, pos |-> item_pos,
                     name |-> PyIndex(item_names(s), item_pos - 1),
                     values |-> [k \in {f \in DOMAIN Zipped(s, tokens) :
                                           Zipped(s, tokens)[f] /= <<>>}
                                    |-> Zipped(s, tokens)[k]]]]
    ELSE LET curr_item == IF item_pos \in DOMAIN imap THEN imap[item_pos] ELSE EmptyDict
             merged == [k \in DOMAIN Zipped(s, tokens) |->
                           _decode(Zipped(s, tokens)[k], Get(curr_item, k))]
         IN [exc |-> "", imap |-> Put(imap, item_pos, merged),
             event |-> [sub |-> s, pos |-> item_pos,
                        name |-> PyIndex(item_names(s), item_pos - 1),
                        values |-> Put(imap, item_pos, merged)[item_pos]]]

NotifyTokens(s, imap, tokens) ==
    IF ~IsInt(tokens[1])
    THEN [exc |-> "ValueError", imap |-> imap, event |-> NoEvent]
    ELSE NotifyItem(s, imap, tokens, ParseInt(tokens[1]))

notify_update(s, imap, item_line) ==
    NotifyTokens(s, imap, Split(RStrip(item_line, {"\r", "\n"}), "|"))

\* ----------------------------------------------------------------- state
VARIABLES
    session,                    \* self._session: header key -> value
    subscriptions,              \* self._subscriptions: key -> Subscription
    current_subscription_key,   \* self._current_subscription_key
    stream_connection,          \* self._stream_connection: 0 is None, else the connection
    stream_connection_thread,   \* self._stream_connection_thread: 0 is None, else the thread
    bind_counter,               \* self._bind_counter
    control_url,                \* self._control_url
    threads,                    \* where each stream thread ever started is
    callerPc,                   \* where the caller thread is
    callerKey,                  \* the key the caller's current call works on
    pending,                    \* unsubscribe_all: the keys of the copy not yet visited
    joinTarget,                 \* _join: the thread being joined
    ctl,                        \* the control request in flight
    hs,                         \* the handshake in progress, as the server sees it
    nConnects,                  \* number of connect() calls so far
    items_map,                  \* Subscription._items_map of each Subscription
    delivered,                  \* the item_info passed to listeners in the last step
    maxReturned,                \* history: the largest key subscribe() has returned
    ev                          \* the last step: its name, inputs and, when it ends a
                                \* call of the caller, how the call ended

vars == <<session, subscriptions, current_subscription_key, stream_connection,
          stream_connection_thread, bind_counter, control_url, threads, callerPc,
          callerKey, pending, joinTarget, ctl, hs, nConnects, items_map, delivered,
          maxReturned, ev>>

clientVars == <<session, subscriptions, current_subscription_key, stream_connection,
                stream_connection_thread, bind_counter, control_url, threads, callerPc,
                callerKey, pending, joinTarget, ctl, hs, nConnects, maxReturned>>

NoCtl == [op |-> "none", table |-> 0, session |-> <<>>]
NoHs == [sid |-> <<>>, stage |-> 0, first |-> <<>>, base |-> 0]

\* A step that ends no call of the caller.
Event(name, t, sub, key, line) ==
    [name |-> name, t |-> t, sub |-> sub, key |-> key, line |-> line,
     out |-> "", val |-> 0]
\* A step in which a call of the caller returns val (out = "return") or
\* raises (out names the exception).
Ended(name, key, line, out, val) ==
    [name |-> name, t |-> 0, sub |-> "none", key |-> key, line |-> line,
     out |-> out, val |-> val]

Init ==
    /\ session = EmptyDict
    /\ subscriptions = EmptyDict
    /\ current_subscription_key = 0
    /\ stream_connection = 0
    /\ stream_connection_thread = 0
    /\ bind_counter = 0
    /\ control_url = NO_ATTR
    /\ threads = <<>>
    /\ callerPc = "idle"
    /\ callerKey = 0
    /\ pending = <<>>
    /\ joinTarget = 0
    /\ ctl = NoCtl
    /\ hs = NoHs
    /\ nConnects = 0
    /\ items_map = [s \in Subs |-> EmptyDict]
    /\ delivered = NoEvent
    /\ maxReturned = 0
    /\ ev = Event("init", 0, "none", 0, <<>>)

\* ------------------------------------------- updates applied to a Subscription
\* Field tokens: not sent, a literal value, the null marker.
FieldTokens == {<<>>, <<"A">>, <<"#">>}
PosTokens == {<<"1">>, <<"0">>, <<"2">>}

RECURSIVE TokenSeqs(_)
TokenSeqs(n) ==
    IF n = 0 THEN {<<>>}
    ELSE TokenSeqs(n - 1) \cup {Append(ts, t) : ts \in TokenSeqs(n - 1), t \in FieldTokens}

RECURSIVE JoinTokens(_)
JoinTokens(ts) == IF ts = <<>> THEN <<>> ELSE <<"|">> \o ts[1] \o JoinTokens(Tail(ts))

\* The item lines "<position>|<token_1>|...|<token_k>" the server may push.
UpdateLines == {p \o JoinTokens(ts) : p \in PosTokens, ts \in TokenSeqs(MaxTokens)}

\* One call of s.notify_update(item_line); an exception leaves the object as it was.
NotifyUpdate(s, item_line) ==
    \E r \in {notify_update(s, items_map[s], item_line)} :
       /\ items_map' = [items_map EXCEPT ![s] = r.imap]
       /\ delivered' = r.event
       /\ ev' = [Ended("notify_update", 0, item_line,
                       IF r.exc = "" THEN "return" ELSE r.exc, 0) EXCEPT !.sub = s]
       /\ UNCHANGED clientVars

NextUpd == \E s \in Subs, item_line \in UpdateLines : NotifyUpdate(s, item_line)

SpecUpd == Init /\ [][NextUpd]_vars

\* The field tokens and the previous values _decode is called on: every text
\* of marker and plain characters up to MaxTokenLen; None, '' and texts.
RECURSIVE TextsUpTo(_)
TextsUpTo(n) ==
    IF n = 0 THEN {<<>>}
    ELSE TextsUpTo(n - 1)
         \cup {<<c>> \o t : c \in {"#", "$", "A"}, t \in {u \in TextsUpTo(n - 1) : Len(u) = n - 1}}
DecodeTokens == TextsUpTo(MaxTokenLen)
DecodePrevs == {NONE, <<>>, <<"A">>, <<"#">>}

\* One call of LightStreamerSubscription._decode(value, last).
Decode(value, last) ==
    /\ ev' = [Ended("_decode", 0, value, "return", 0) EXCEPT
                 !.val = [last |-> last, result |-> _decode(value, last)]]
    /\ UNCHANGED <<clientVars, items_map, delivered>>

NextDecode == \E value \in DecodeTokens, last \in DecodePrevs : Decode(value, last)

SpecDecode == Init /\ [][NextDecode]_vars

\* ---------------------------------------------------------------- server
DigitChar(n) ==
    CASE n = 0 -> "0" [] n = 1 -> "1" [] n = 2 -> "2" [] n = 3 -> "3" [] n = 4 -> "4"
      [] n = 5 -> "5" [] n = 6 -> "6" [] n = 7 -> "7" [] n = 8 -> "8" [] n = 9 -> "9"

\* The id the server gives the session created by the n-th connect().
SessionIdOf(n) == <<"S", DigitChar(n)>>
\* A control address behind a load balancer, "lb:80".
LB_ADDRESS == <<"l", "b", ":", "8", "0">>

\* First line of a create_session / bind_session response.
FirstLines == {OK_CMD \o CRLF, ERROR_CMD \o CRLF}
\* First line of a control response.
ControlLines == {OK_CMD \o CRLF, ERROR_CMD \o CRLF}

\* What the server sends next in the header part of a handshake: the session
\* id (on bind_session, the id it was asked to bind), then optionally the
\* control address, then the blank line.
HeaderLines(h) ==
    IF h.stage = 1 THEN {SESSION_ID \o <<":">> \o h.sid \o CRLF}
    ELSE IF h.stage = 2 THEN {CONTROL_ADDRESS \o <<":">> \o LB_ADDRESS \o CRLF, CRLF}
    ELSE {CRLF}

\* Data lines "<table>,<item line>" pushed on the stream connection: two well
\* formed ones, and lines with no comma, with a table or an item position
\* that is not an integer, with an item position out of range.
DataLines ==
    {<<"1", ",", "1", "|", "A">>, <<"2", ",", "1", "|", "A">>,
     <<"1">>, <<"x", ",", "1">>, <<"1", ",", "y">>, <<"1", ",", "2">>}

\* What a readline() on the stream connection can give: end of file, a
\* control line, a data line; or it raises.
StreamLines ==
    {<<>>, RAISED}
    \cup {l \o CRLF : l \in {PROBE_CMD, ERROR_CMD, LOOP_CMD, SYNC_ERROR_CMD,
                             END_CMD \o <<" ", "3", "1">>, PREAMBLE} \cup DataLines}

\* ---------------------------------------------------- LightStreamerClient
\* _read_from_stream: readline().decode("utf-8").rstrip()
_read_from_stream(raw) == RStrip(raw, WHITESPACE)

\* _control line 161: response.readline().decode("utf-8").rstrip()
ControlResponse(raw) == RStrip(raw, WHITESPACE)

\* _set_control_link_url(custom_address): the value self._control_url gets
_set_control_link_url(custom_address) ==
    IF custom_address = NONE THEN LS_URL ELSE custom_address

\* _handle_stream, lines 212-213: one "key:value" line stored in the session
StoreHeader(sess, next_stream_line) ==
    Put(sess, Split1(next_stream_line, ":")[1], Split1(next_stream_line, ":")[2])

HasSessionId == SESSION_ID \in DOMAIN session
\* A thread that has ended, by returning or by an exception, is "done".
Alive(pc) == pc /= "done"
NoLiveThread == \A i \in DOMAIN threads : ~Alive(threads[i])
Req(op, table) == [op |-> op, table |-> table, session |-> session[SESSION_ID]]

\* connect(), lines 174-183: the create_session request is made and answered.
Connect ==
    /\ callerPc = "idle"
    /\ NoLiveThread
    /\ nConnects < MaxConnects
    /\ nConnects' = nConnects + 1
    /\ stream_connection' = nConnects + 1 + bind_counter
    /\ hs' = [sid |-> SessionIdOf(nConnects + 1), stage |-> 0, first |-> <<>>,
              base |-> bind_counter]
    /\ callerPc' = "connect_first"
    /\ delivered' = NoEvent
    /\ ev' = Event("connect", 0, "none", 0, <<>>)
    /\ UNCHANGED <<session, subscriptions, current_subscription_key,
                   stream_connection_thread, bind_counter, control_url, threads,
                   callerKey, pending, joinTarget, ctl, items_map, maxReturned>>

\* A faulty variant of HandshakeOk, which takes any non-empty first line for
\* the marker; C9_Handshake must tell it from HandshakeOk.
HandshakeOk_AnyLine(stream_line) == stream_line /= <<>>

\* _handle_stream line 205: is the first line of the response the OK marker
HandshakeOk(stream_line) == stream_line = OK_CMD

\* connect() line 184 and _handle_stream lines 205, 229-233: the first line.
ConnectFirstLine(raw) ==
    /\ callerPc = "connect_first"
    /\ IF HandshakeOk(_read_from_stream(raw))
       THEN /\ callerPc' = "connect_hdr"
            /\ hs' = [hs EXCEPT !.stage = 1, !.first = _read_from_stream(raw)]
            /\ ev' = Event("connect_first", 0, "none", 0, _read_from_stream(raw))
       ELSE /\ callerPc' = "idle"
            /\ hs' = NoHs
            /\ ev' = Ended("connect_first", 0, _read_from_stream(raw), "IOError", 0)
    /\ delivered' = NoEvent
    /\ UNCHANGED <<session, subscriptions, current_subscription_key, stream_connection,
                   stream_connection_thread, bind_counter, control_url, threads,
                   callerKey, pending, joinTarget, ctl, nConnects, items_map, maxReturned>>

\* _handle_stream lines 209-213 under connect(): a header line is stored.
ConnectHeader(raw) ==
    /\ callerPc = "connect_hdr"
    /\ _read_from_stream(raw) /= <<>>
    /\ session' = StoreHeader(session, _read_from_stream(raw))
    /\ hs' = [hs EXCEPT !.stage = hs.stage + 1]
    /\ delivered' = NoEvent
    /\ ev' = Event("connect_header", 0, "none", 0, _read_from_stream(raw))
    /\ UNCHANGED <<subscriptions, current_subscription_key, stream_connection,
                   stream_connection_thread, bind_counter, control_url, threads, callerPc,
                   callerKey, pending, joinTarget, ctl, nConnects, items_map, maxReturned>>

\* _handle_stream lines 214-227 under connect(): the blank line ends the
\* headers, the control link is set and the stream thread is started.
ConnectStart(raw) ==
    /\ callerPc = "connect_hdr"
    /\ _read_from_stream(raw) = <<>>
    /\ control_url' = _set_control_link_url(Get(session, CONTROL_ADDRESS))
    /\ threads' = Append(threads, "loop")
    /\ stream_connection_thread' = Len(threads) + 1
    /\ callerPc' = "idle"
    /\ hs' = NoHs
    /\ delivered' = NoEvent
    /\ ev' = Ended("connect_start", 0, <<>>, "return", 0)
    /\ UNCHANGED <<session, subscriptions, current_subscription_key, stream_connection,
                   bind_counter, callerKey, pending, joinTarget, ctl, nConnects,
                   items_map, maxReturned>>

\* _receive lines 338-345: the message a read gives, None when the line is
\* empty or blank or the read raised.
Message(raw) ==
    IF raw = RAISED THEN NONE
    ELSE IF Strip(_read_from_stream(raw)) = <<>> THEN NONE
    ELSE _read_from_stream(raw)

\* A faulty variant of Classify, which has no case for SYNC ERROR and so takes
\* it for data; C3_TerminalReset must tell it from Classify.
Classify_NoSyncError(message) ==
    IF message = NONE THEN "stop"
    ELSE IF message = PROBE_CMD THEN "skip"
    ELSE IF StartsWith(message, ERROR_CMD) THEN "stop"
    ELSE IF StartsWith(message, LOOP_CMD) THEN "rebind"
    ELSE IF StartsWith(message, END_CMD) THEN "stop"
    ELSE IF StartsWith(message, PREAMBLE) THEN "skip"
    ELSE "data"

\* _receive lines 347-379: what the loop does with a message.
Classify(message) ==
    IF message = NONE THEN "stop"
    ELSE IF message = PROBE_CMD THEN "skip"
    ELSE IF StartsWith(message, ERROR_CMD) THEN "stop"
    ELSE IF StartsWith(message, LOOP_CMD) THEN "rebind"
    ELSE IF StartsWith(message, SYNC_ERROR_CMD) THEN "stop"
    ELSE IF StartsWith(message, END_CMD) THEN "stop"
    ELSE IF StartsWith(message, PREAMBLE) THEN "skip"
    ELSE "data"

\* The lines of the stream by what _receive does with them.
LinesOf(class) == {raw \in StreamLines : Classify(Message(raw)) = class}
StopLines == LinesOf("stop")
SkipLines == LinesOf("skip")
RebindLines == LinesOf("rebind")
UpdateMessages == LinesOf("data")

Reading(t) == t \in DOMAIN threads /\ threads[t] = "loop"

\* A faulty variant of StreamStop, which leaves the key counter as it is;
\* C4_KeysPerEpoch must tell it from StreamStop.
StreamStop_KeepsCounter(t, raw) ==
    /\ t \in DOMAIN threads /\ threads[t] = "loop"
    /\ stream_connection' = 0
    /\ session' = EmptyDict
    /\ subscriptions' = EmptyDict
    /\ threads' = [threads EXCEPT ![t] = "done"]
    /\ delivered' = NoEvent
    /\ ev' = Event("stream_stop", t, "none", 0, Message(raw))
    /\ UNCHANGED <<current_subscription_key, stream_connection_thread, bind_counter,
                   control_url, callerPc, callerKey, pending, joinTarget, ctl, hs,
                   nConnects, items_map, maxReturned>>

\* A faulty variant of StreamStop, in which a terminal message clears the
\* client's state but does not end the read loop; C17_DisconnectReturns must
\* tell it from StreamStop.
StreamStop_NoBreak(t, raw) ==
    /\ t \in DOMAIN threads /\ threads[t] = "loop"
    /\ stream_connection' = 0
    /\ session' = EmptyDict
    /\ subscriptions' = EmptyDict
    /\ current_subscription_key' = 0
    /\ delivered' = NoEvent
    /\ ev' = Event("stream_stop", t, "none", 0, Message(raw))
    /\ UNCHANGED <<stream_connection_thread, bind_counter, control_url, threads,
                   callerPc, callerKey, pending, joinTarget, ctl, hs, nConnects,
                   items_map, maxReturned>>

\* _receive lines 347-349, 353-356, 363-374 and 381-387: a terminal message
\* ends the loop without rebind and the thread clears the client's state.
StreamStop(t, raw) ==
    /\ Reading(t)
    /\ stream_connection' = 0
    /\ session' = EmptyDict
    /\ subscriptions' = EmptyDict
    /\ current_subscription_key' = 0
    /\ threads' = [threads EXCEPT ![t] = "done"]
    /\ delivered' = NoEvent
    /\ ev' = Event("stream_stop", t, "none", 0, Message(raw))
    /\ UNCHANGED <<stream_connection_thread, bind_counter, control_url, callerPc,
                   callerKey, pending, joinTarget, ctl, hs, nConnects, items_map, maxReturned>>

\* _receive lines 350-352 and 375-377: PROBE and Preamble are skipped.
StreamSkip(t, raw) ==
    /\ Reading(t)
    /\ delivered' = NoEvent
    /\ ev' = Event("stream_skip", t, "none", 0, Message(raw))
    /\ UNCHANGED <<clientVars, items_map>>

\* A faulty variant of StreamLoop, which clears the subscriptions as a terminal
\* message does; C2_RebindKeeps must tell it from StreamLoop.
StreamLoop_Clears(t, raw) ==
    /\ t \in DOMAIN threads /\ threads[t] = "loop"
    /\ bind_counter < MaxBinds
    /\ threads' = [threads EXCEPT ![t] = IF SESSION_ID \in DOMAIN session
                                         THEN "bind_open" ELSE "done"]
    /\ hs' = IF SESSION_ID \in DOMAIN session
             THEN [sid |-> session[SESSION_ID], stage |-> 0, first |-> <<>>,
                   base |-> bind_counter]
             ELSE hs
    /\ subscriptions' = EmptyDict
    /\ current_subscription_key' = 0
    /\ delivered' = NoEvent
    /\ ev' = Event("stream_loop", t, "none", 0, Message(raw))
    /\ UNCHANGED <<session, stream_connection, stream_connection_thread, bind_counter,
                   control_url, callerPc, callerKey, pending, joinTarget, ctl,
                   nConnects, items_map, maxReturned>>

\* _receive lines 357-362, 388-390 and bind() lines 190-197: LOOP ends the
\* loop and the thread asks the server to bind the session.
StreamLoop(t, raw) ==
    /\ Reading(t)
    /\ bind_counter < MaxBinds
    /\ IF HasSessionId
       THEN /\ threads' = [threads EXCEPT ![t] = "bind_open"]
            /\ hs' = [sid |-> session[SESSION_ID], stage |-> 0, first |-> <<>>,
                    base |-> bind_counter]
       ELSE /\ threads' = [threads EXCEPT ![t] = "done"]
            /\ hs' = hs
    /\ delivered' = NoEvent
    /\ ev' = Event("stream_loop", t, "none", 0, Message(raw))
    /\ UNCHANGED <<session, subscriptions, current_subscription_key, stream_connection,
                   stream_connection_thread, bind_counter, control_url, callerPc,
                   callerKey, pending, joinTarget, ctl, nConnects, items_map, maxReturned>>

\* bind() lines 191-199: the bind_session request is answered.
BindOpened(t) ==
    /\ t \in DOMAIN threads /\ threads[t] = "bind_open"
    /\ stream_connection' = nConnects + bind_counter + 1
    /\ bind_counter' = bind_counter + 1
    /\ threads' = [threads EXCEPT ![t] = "bind_first"]
    /\ delivered' = NoEvent
    /\ ev' = Event("bind_opened", t, "none", 0, <<>>)
    /\ UNCHANGED <<session, subscriptions, current_subscription_key,
                   stream_connection_thread, control_url, callerPc, callerKey, pending,
                   joinTarget, ctl, hs, nConnects, items_map, maxReturned>>

\* bind() line 200 and _handle_stream lines 205, 229-233: the first line; the
\* IOError of a refused bind ends the thread, which clears nothing.
BindFirstLine(t, raw) ==
    /\ t \in DOMAIN threads /\ threads[t] = "bind_first"
    /\ IF HandshakeOk(_read_from_stream(raw))
       THEN /\ threads' = [threads EXCEPT ![t] = "bind_hdr"]
            /\ hs' = [hs EXCEPT !.stage = 1, !.first = _read_from_stream(raw)]
       ELSE /\ threads' = [threads EXCEPT ![t] = "done"]
            /\ hs' = NoHs
    /\ delivered' = NoEvent
    /\ ev' = Event("bind_first", t, "none", 0, _read_from_stream(raw))
    /\ UNCHANGED <<session, subscriptions, current_subscription_key, stream_connection,
                   stream_connection_thread, bind_counter, control_url, callerPc,
                   callerKey, pending, joinTarget, ctl, nConnects, items_map, maxReturned>>

\* _handle_stream lines 209-213 under bind(): a header line is stored.
BindHeader(t, raw) ==
    /\ t \in DOMAIN threads /\ threads[t] = "bind_hdr"
    /\ _read_from_stream(raw) /= <<>>
    /\ session' = StoreHeader(session, _read_from_stream(raw))
    /\ hs' = [hs EXCEPT !.stage = hs.stage + 1]
    /\ delivered' = NoEvent
    /\ ev' = Event("bind_header", t, "none", 0, _read_from_stream(raw))
    /\ UNCHANGED <<subscriptions, current_subscription_key, stream_connection,
                   stream_connection_thread, bind_counter, control_url, threads, callerPc,
                   callerKey, pending, joinTarget, ctl, nConnects, items_map, maxReturned>>

\* A faulty variant of BindStart, in which the old thread goes back to its
\* read loop after starting its successor; C1_OneReader must tell it from
\* BindStart.
BindStart_OldReads(t, raw) ==
    /\ t \in DOMAIN threads /\ threads[t] = "bind_hdr"
    /\ _read_from_stream(raw) = <<>>
    /\ control_url' = _set_control_link_url(Get(session, CONTROL_ADDRESS))
    /\ threads' = Append([threads EXCEPT ![t] = "loop"], "loop")
    /\ stream_connection_thread' = Len(threads) + 1
    /\ hs' = NoHs
    /\ delivered' = NoEvent
    /\ ev' = Event("bind_start", t, "none", 0, <<>>)
    /\ UNCHANGED <<session, subscriptions, current_subscription_key, stream_connection,
                   bind_counter, callerPc, callerKey, pending, joinTarget, ctl, nConnects,
                   items_map, maxReturned>>

\* _handle_stream lines 209-223 under bind(): the blank line ends the headers,
\* the control link is set and the successor's Thread object is created and
\* stored in self._stream_connection_thread; it is not started yet.
BindStart(t, raw) ==
    /\ t \in DOMAIN threads /\ threads[t] = "bind_hdr"
    /\ _read_from_stream(raw) = <<>>
    /\ control_url' = _set_control_link_url(Get(session, CONTROL_ADDRESS))
    /\ threads' = Append([threads EXCEPT ![t] = "bind_thread"], "new")
    /\ stream_connection_thread' = Len(threads) + 1
    /\ delivered' = NoEvent
    /\ ev' = Event("bind_thread", t, "none", 0, <<>>)
    /\ UNCHANGED <<session, subscriptions, current_subscription_key, stream_connection,
                   bind_counter, callerPc, callerKey, pending, joinTarget, ctl, hs,
                   nConnects, items_map, maxReturned>>

\* _handle_stream line 224 under bind(), bind() line 202 and the end of
\* _receive: the thread found in self._stream_connection_thread is started
\* and the old thread ends.
ThreadStart(t) ==
    /\ t \in DOMAIN threads /\ threads[t] = "bind_thread"
    /\ threads' = [threads EXCEPT ![t] = "done", ![stream_connection_thread] = "loop"]
    /\ hs' = NoHs
    /\ delivered' = NoEvent
    /\ ev' = Event("bind_start", t, "none", 0, <<>>)
    /\ UNCHANGED <<session, subscriptions, current_subscription_key, stream_connection,
                   stream_connection_thread, bind_counter, control_url, callerPc,
                   callerKey, pending, joinTarget, ctl, nConnects, items_map,
                   maxReturned>>

\* A faulty variant of _forward_update_message, which hands a line whose
\* table is not registered to the Subscription of the lowest registered key;
\* C12_Routing must tell it from _forward_update_message.
_forward_update_message_Lowest(update_message) ==
    LET tok == Split1(update_message, ",")
        lowest == CHOOSE k \in DOMAIN subscriptions : \A j \in DOMAIN subscriptions : k <= j
    IN IF ~IsInt(tok[1]) THEN [exc |-> "ValueError", sub |-> "none", item |-> <<>>]
       ELSE IF Len(tok) < 2 THEN [exc |-> "IndexError", sub |-> "none", item |-> <<>>]
       ELSE IF ParseInt(tok[1]) \in DOMAIN subscriptions
       THEN [exc |-> "", sub |-> subscriptions[ParseInt(tok[1])], item |-> tok[2]]
       ELSE IF subscriptions /= EmptyDict
       THEN [exc |-> "", sub |-> subscriptions[lowest], item |-> tok[2]]
       ELSE [exc |-> "", sub |-> "none", item |-> <<>>]

\* _forward_update_message lines 322-327: the Subscription the message is
\* for, "none" when the table is not registered; exc names the exception
\* raised by the parse ("" if none).
_forward_update_message(update_message) ==
    LET tok == Split1(update_message, ",")
    IN IF ~IsInt(tok[1]) THEN [exc |-> "ValueError", sub |-> "none", item |-> <<>>]
       ELSE IF Len(tok) < 2 THEN [exc |-> "IndexError", sub |-> "none", item |-> <<>>]
       ELSE IF ParseInt(tok[1]) \in DOMAIN subscriptions
       THEN [exc |-> "", sub |-> subscriptions[ParseInt(tok[1])], item |-> tok[2]]
       ELSE [exc |-> "", sub |-> "none", item |-> <<>>]

\* notify_update lines 111-112: what the listeners do with an item_info
\* passed to them: return ("") or raise.
ListenerOutcomes(item_info) ==
    IF item_info = NoEvent THEN {""} ELSE {"", "ListenerError"}

\* A faulty variant of StreamData, in which _forward_update_message has no
\* try/except, so that an exception ends the thread; C13_DataNeverStops
\* must tell it from StreamData.
StreamData_Uncaught(t, raw) ==
    /\ t \in DOMAIN threads /\ threads[t] = "loop"
    /\ \E f \in {_forward_update_message(Message(raw))} :
          IF f.sub = "none"
          THEN /\ delivered' = NoEvent
               /\ items_map' = items_map
               /\ threads' = [threads EXCEPT ![t] = IF f.exc = "" THEN "loop" ELSE "done"]
               /\ ev' = [Event("stream_data", t, "none", 0, Message(raw))
                            EXCEPT !.out = f.exc]
          ELSE \E r \in {notify_update(f.sub, items_map[f.sub], f.item)} :
                  /\ items_map' = [items_map EXCEPT ![f.sub] = r.imap]
                  /\ delivered' = r.event
                  /\ threads' = [threads EXCEPT ![t] = IF r.exc = "" THEN "loop" ELSE "done"]
                  /\ ev' = [Event("stream_data", t, "none", 0, Message(raw))
                               EXCEPT !.out = r.exc]
    /\ UNCHANGED <<session, subscriptions, current_subscription_key, stream_connection,
                   stream_connection_thread, bind_counter, control_url, callerPc,
                   callerKey, pending, joinTarget, ctl, hs, nConnects, maxReturned>>

\* _receive lines 378-379 and _forward_update_message: any other message is a
\* data line; whatever its handling raises, in the parse, in notify_update or
\* in a listener, is caught (ev.out names it) and the loop goes on.
StreamData(t, raw) ==
    /\ Reading(t)
    /\ \E f \in {_forward_update_message(Message(raw))} :
          IF f.sub = "none"
          THEN /\ delivered' = NoEvent
               /\ items_map' = items_map
               /\ ev' = [Event("stream_data", t, "none", 0, Message(raw))
                            EXCEPT !.out = f.exc]
          ELSE \E r \in {notify_update(f.sub, items_map[f.sub], f.item)} :
                  /\ items_map' = [items_map EXCEPT ![f.sub] = r.imap]
                  /\ delivered' = r.event
                  /\ \E raised \in ListenerOutcomes(r.event) :
                        ev' = [Event("stream_data", t, "none", 0, Message(raw))
                                 EXCEPT !.out = IF r.exc /= "" THEN r.exc ELSE raised]
    /\ UNCHANGED clientVars

\* _control lines 159-160: the request goes out, unless the session has no id
\* (KeyError); lines 161-163 are the caller's next step, when the answer is in.
CanControl == HasSessionId

\* The Subscription the caller passes next: it holds two objects, one of each
\* mode, and subscribes them in turn.
NextSub == IF current_subscription_key % 2 = 0 THEN "subA" ELSE "subB"

\* subscribe() lines 260-273: the key is taken, the Subscription registered
\* and the ADD request sent.
Subscribe(s) ==
    /\ callerPc = "idle"
    /\ current_subscription_key < MaxKey
    /\ current_subscription_key' = current_subscription_key + 1
    /\ subscriptions' = Put(subscriptions, current_subscription_key + 1, s)
    /\ IF CanControl
       THEN /\ ctl' = Req(OP_ADD, current_subscription_key + 1)
            /\ callerPc' = "subscribe"
            /\ callerKey' = current_subscription_key + 1
            /\ ev' = Event("subscribe", 0, s, current_subscription_key + 1, <<>>)
       ELSE /\ ctl' = ctl
            /\ callerPc' = "idle"
            /\ callerKey' = 0
            /\ ev' = Ended("subscribe", current_subscription_key + 1, <<>>, "KeyError", 0)
    /\ delivered' = NoEvent
    /\ UNCHANGED <<session, stream_connection, stream_connection_thread, bind_counter,
                   control_url, threads, pending, joinTarget, hs, nConnects, items_map, maxReturned>>

\* subscribe() lines 274-278: the answer is logged and the current key returned.
SubscribeResponse(raw) ==
    /\ callerPc = "subscribe"
    /\ ctl' = NoCtl
    /\ callerPc' = "idle"
    /\ callerKey' = 0
    /\ maxReturned' = IF current_subscription_key > maxReturned
                      THEN current_subscription_key ELSE maxReturned
    /\ delivered' = NoEvent
    /\ ev' = Ended("subscribe_response", callerKey, ControlResponse(raw), "return",
                   current_subscription_key)
    /\ UNCHANGED <<session, subscriptions, current_subscription_key, stream_connection,
                   stream_connection_thread, bind_counter, control_url, threads,
                   pending, joinTarget, hs, nConnects, items_map>>

\* unsubscribe() lines 283-288, 295-296: a registered key gets a DELETE
\* request, an unknown key a warning.
Unsubscribe(subscription_key) ==
    /\ callerPc = "idle"
    /\ IF subscription_key \in DOMAIN subscriptions
       THEN IF CanControl
            THEN /\ ctl' = Req(OP_DELETE, subscription_key)
                 /\ callerPc' = "unsubscribe"
                 /\ callerKey' = subscription_key
                 /\ ev' = Event("unsubscribe", 0, "none", subscription_key, <<>>)
            ELSE /\ ctl' = ctl
                 /\ callerPc' = "idle"
                 /\ callerKey' = 0
                 /\ ev' = Ended("unsubscribe", subscription_key, <<>>, "KeyError", 0)
       ELSE /\ ctl' = ctl
            /\ callerPc' = "idle"
            /\ callerKey' = 0
            /\ ev' = Ended("unsubscribe", subscription_key, <<>>, "return", 0)
    /\ delivered' = NoEvent
    /\ UNCHANGED <<session, subscriptions, current_subscription_key, stream_connection,
                   stream_connection_thread, bind_counter, control_url, threads, pending,
                   joinTarget, hs, nConnects, items_map, maxReturned>>

\* A faulty variant of UnsubscribeResponse, which deletes the entry whatever
\* the answer is; C15_TableSteps must tell it from UnsubscribeResponse.
UnsubscribeResponse_AnyAnswer(raw) ==
    /\ callerPc = "unsubscribe"
    /\ ctl' = NoCtl
    /\ callerPc' = "idle"
    /\ callerKey' = 0
    /\ subscriptions' = Del(subscriptions, callerKey)
    /\ ev' = Ended("unsubscribe_response", callerKey, ControlResponse(raw),
                   IF callerKey \in DOMAIN subscriptions THEN "return" ELSE "KeyError", 0)
    /\ delivered' = NoEvent
    /\ UNCHANGED <<session, current_subscription_key, stream_connection,
                   stream_connection_thread, bind_counter, control_url, threads,
                   pending, joinTarget, hs, nConnects, items_map, maxReturned>>

\* unsubscribe() lines 290-294: the entry is deleted on OK only; del raises
\* KeyError when the entry is no longer there.
UnsubscribeResponse(raw) ==
    /\ callerPc = "unsubscribe"
    /\ ctl' = NoCtl
    /\ callerPc' = "idle"
    /\ callerKey' = 0
    /\ IF ControlResponse(raw) = OK_CMD
       THEN IF callerKey \in DOMAIN subscriptions
            THEN /\ subscriptions' = Del(subscriptions, callerKey)
                 /\ ev' = Ended("unsubscribe_response", callerKey, ControlResponse(raw),
                                "return", 0)
            ELSE /\ subscriptions' = subscriptions
                 /\ ev' = Ended("unsubscribe_response", callerKey, ControlResponse(raw),
                                "KeyError", 0)
       ELSE /\ subscriptions' = subscriptions
            /\ ev' = Ended("unsubscribe_response", callerKey, ControlResponse(raw),
                           "return", 0)
    /\ delivered' = NoEvent
    /\ UNCHANGED <<session, current_subscription_key, stream_connection,
                   stream_connection_thread, bind_counter, control_url, threads,
                   pending, joinTarget, hs, nConnects, items_map, maxReturned>>

\* The keys of a dict in iteration order: keys are inserted in increasing order.
RECURSIVE KeysInOrder(_)
KeysInOrder(keys) ==
    IF keys = {} THEN <<>>
    ELSE LET k == CHOOSE x \in keys : \A y \in keys : x <= y
         IN <<k>> \o KeysInOrder(keys \ {k})

\* unsubscribe_all() lines 302-306, for the next key of the copy: its DELETE
\* request is sent; with no key left the method returns.
UnsubscribeNext(name, keys, line) ==
    IF keys = <<>>
    THEN /\ ctl' = NoCtl
         /\ callerPc' = "idle"
         /\ pending' = <<>>
         /\ callerKey' = 0
         /\ ev' = Ended(name, callerKey, line, "return", 0)
    ELSE IF CanControl
    THEN /\ ctl' = Req(OP_DELETE, Head(keys))
         /\ callerPc' = "unsubscribe_all"
         /\ pending' = Tail(keys)
         /\ callerKey' = Head(keys)
         /\ ev' = Event(name, 0, "none", callerKey, line)
    ELSE /\ ctl' = NoCtl
         /\ callerPc' = "idle"
         /\ pending' = <<>>
         /\ callerKey' = 0
         /\ ev' = Ended(name, callerKey, line, "KeyError", 0)

\* unsubscribe_all() line 302: the keys are copied and the first is visited.
UnsubscribeAll ==
    /\ callerPc = "idle"
    /\ UnsubscribeNext("unsubscribe_all", KeysInOrder(DOMAIN subscriptions), <<>>)
    /\ delivered' = NoEvent
    /\ UNCHANGED <<session, subscriptions, current_subscription_key, stream_connection,
                   stream_connection_thread, bind_counter, control_url, threads,
                   joinTarget, hs, nConnects, items_map, maxReturned>>

\* unsubscribe_all() lines 308-313: the entry is deleted on OK only, then the
\* next key is visited.
UnsubscribeAllResponse(raw) ==
    /\ callerPc = "unsubscribe_all"
    /\ IF ControlResponse(raw) = OK_CMD /\ callerKey \notin DOMAIN subscriptions
       THEN /\ subscriptions' = subscriptions
            /\ ctl' = NoCtl
            /\ callerPc' = "idle"
            /\ pending' = <<>>
            /\ callerKey' = 0
            /\ ev' = Ended("unsubscribe_all_response", callerKey, ControlResponse(raw),
                           "KeyError", 0)
       ELSE /\ subscriptions' = IF ControlResponse(raw) = OK_CMD
                                THEN Del(subscriptions, callerKey) ELSE subscriptions
            /\ UnsubscribeNext("unsubscribe_all_response", pending, ControlResponse(raw))
    /\ delivered' = NoEvent
    /\ UNCHANGED <<session, current_subscription_key, stream_connection,
                   stream_connection_thread, bind_counter, control_url, threads,
                   joinTarget, hs, nConnects, items_map, maxReturned>>

\* disconnect() lines 247-249, 253-254: with a stream connection the DESTROY
\* request is sent, without one a warning is logged.
Disconnect ==
    /\ callerPc = "idle"
    /\ IF stream_connection /= 0
       THEN IF CanControl
            THEN /\ ctl' = Req(OP_DESTROY, 0)
                 /\ callerPc' = "disconnect"
                 /\ ev' = Event("disconnect", 0, "none", 0, <<>>)
            ELSE /\ ctl' = ctl
                 /\ callerPc' = "idle"
                 /\ ev' = Ended("disconnect", 0, <<>>, "KeyError", 0)
       ELSE /\ ctl' = ctl
            /\ callerPc' = "idle"
            /\ ev' = Ended("disconnect", 0, <<>>, "return", 0)
    /\ delivered' = NoEvent
    /\ UNCHANGED <<session, subscriptions, current_subscription_key, stream_connection,
                   stream_connection_thread, bind_counter, control_url, threads,
                   callerKey, pending, joinTarget, hs, nConnects, items_map, maxReturned>>

\* disconnect() lines 249-251 and _join lines 238-240: the answer is dropped
\* and the thread found in self._stream_connection_thread is joined; join()
\* on a Thread object that is not started yet raises RuntimeError.
DisconnectResponse(raw) ==
    /\ callerPc = "disconnect"
    /\ ctl' = NoCtl
    /\ IF stream_connection_thread = 0
       THEN /\ joinTarget' = joinTarget
            /\ callerPc' = "idle"
            /\ ev' = Ended("disconnect_response", 0, ControlResponse(raw), "return", 0)
       ELSE IF threads[stream_connection_thread] = "new"
       THEN /\ joinTarget' = joinTarget
            /\ callerPc' = "idle"
            /\ ev' = Ended("disconnect_response", 0, ControlResponse(raw),
                           "RuntimeError", 0)
       ELSE /\ joinTarget' = stream_connection_thread
            /\ callerPc' = "join"
            /\ ev' = Event("disconnect_response", 0, "none", 0, ControlResponse(raw))
    /\ delivered' = NoEvent
    /\ UNCHANGED <<session, subscriptions, current_subscription_key, stream_connection,
                   stream_connection_thread, bind_counter, control_url, threads,
                   callerKey, pending, hs, nConnects, items_map, maxReturned>>

\* _join lines 240-242 and disconnect() line 252: join() returns once the
\* joined thread has ended.
DisconnectJoined ==
    /\ callerPc = "join"
    /\ ~Alive(threads[joinTarget])
    /\ stream_connection_thread' = 0
    /\ joinTarget' = 0
    /\ callerPc' = "idle"
    /\ delivered' = NoEvent
    /\ ev' = Ended("disconnect_joined", 0, <<>>, "return", 0)
    /\ UNCHANGED <<session, subscriptions, current_subscription_key, stream_connection,
                   bind_counter, control_url, threads, callerKey, pending, ctl, hs,
                   nConnects, items_map, maxReturned>>

Next ==
    \/ Connect
    \/ \E raw \in FirstLines : ConnectFirstLine(raw)
    \/ \E raw \in HeaderLines(hs) : ConnectHeader(raw)
    \/ \E raw \in HeaderLines(hs) : ConnectStart(raw)
    \/ Subscribe(NextSub)
    \/ \E raw \in ControlLines : SubscribeResponse(raw)
    \/ \E k \in 1..MaxKey : Unsubscribe(k)
    \/ \E raw \in ControlLines : UnsubscribeResponse(raw)
    \/ UnsubscribeAll
    \/ \E raw \in ControlLines : UnsubscribeAllResponse(raw)
    \/ Disconnect
    \/ \E raw \in ControlLines : DisconnectResponse(raw)
    \/ DisconnectJoined
    \/ \E t \in DOMAIN threads, raw \in StopLines : StreamStop(t, raw)
    \/ \E t \in DOMAIN threads, raw \in SkipLines : StreamSkip(t, raw)
    \/ \E t \in DOMAIN threads, raw \in RebindLines : StreamLoop(t, raw)
    \/ \E t \in DOMAIN threads, raw \in UpdateMessages : StreamData(t, raw)
    \/ \E t \in DOMAIN threads : BindOpened(t)
    \/ \E t \in DOMAIN threads, raw \in FirstLines : BindFirstLine(t, raw)
    \/ \E t \in DOMAIN threads, raw \in HeaderLines(hs) : BindHeader(t, raw)
    \/ \E t \in DOMAIN threads, raw \in HeaderLines(hs) : BindStart(t, raw)
    \/ \E t \in DOMAIN threads : ThreadStart(t)

Spec == Init /\ [][Next]_vars

\* The scheduling under which disconnect() is examined: the control
\* connection answers the DESTROY request, the stream thread and the joining
\* caller get to run, the server answers a bind_session request and sends
\* its header block, and every stream connection that is being read is
\* eventually given a terminal line.
Fairness ==
    /\ WF_vars(\E raw \in ControlLines : DisconnectResponse(raw))
    /\ WF_vars(DisconnectJoined)
    /\ WF_vars(\E t \in DOMAIN threads, raw \in StopLines : StreamStop(t, raw))
    /\ WF_vars(\E t \in DOMAIN threads : BindOpened(t))
    /\ WF_vars(\E t \in DOMAIN threads, raw \in FirstLines : BindFirstLine(t, raw))
    /\ WF_vars(\E t \in DOMAIN threads, raw \in HeaderLines(hs) : BindHeader(t, raw))
    /\ WF_vars(\E t \in DOMAIN threads, raw \in HeaderLines(hs) : BindStart(t, raw))
    /\ WF_vars(\E t \in DOMAIN threads : ThreadStart(t))

\* The steps of the connection's life: connect(), disconnect() and the stream
\* thread. What the caller registers in the subscription table decides no
\* branch of these.
NextLive ==
    \/ Connect
    \/ \E raw \in FirstLines : ConnectFirstLine(raw)
    \/ \E raw \in HeaderLines(hs) : ConnectHeader(raw)
    \/ \E raw \in HeaderLines(hs) : ConnectStart(raw)
    \/ Disconnect
    \/ \E raw \in ControlLines : DisconnectResponse(raw)
    \/ DisconnectJoined
    \/ \E t \in DOMAIN threads, raw \in StopLines : StreamStop(t, raw)
    \/ \E t \in DOMAIN threads, raw \in SkipLines : StreamSkip(t, raw)
    \/ \E t \in DOMAIN threads, raw \in RebindLines : StreamLoop(t, raw)
    \/ \E t \in DOMAIN threads, raw \in UpdateMessages : StreamData(t, raw)
    \/ \E t \in DOMAIN threads : BindOpened(t)
    \/ \E t \in DOMAIN threads, raw \in FirstLines : BindFirstLine(t, raw)
    \/ \E t \in DOMAIN threads, raw \in HeaderLines(hs) : BindHeader(t, raw)
    \/ \E t \in DOMAIN threads, raw \in HeaderLines(hs) : BindStart(t, raw)
    \/ \E t \in DOMAIN threads : ThreadStart(t)

SpecLive == Init /\ [][NextLive]_vars /\ Fairness

\* ------------------------------------------------------------- properties
\* The stream threads that are in their read loop.
Readers == {t \in DOMAIN threads : threads[t] = "loop"}

\* C1: in every reachable state at most one stream thread is in its read
\* loop: the thread that read LOOP has left its loop before the successor
\* started by bind() reads, whatever the number of rebinds.
C1_OneReader == Cardinality(Readers) <= 1

\* The successor started by the rebind of the first connection's thread has
\* read a data line; the old thread has ended.
C1_Witness ==
    /\ ev.name = "stream_data"
    /\ ev.t = 2
    /\ nConnects = 1
    /\ bind_counter = 1
    /\ threads[1] = "done"

\* The steps of a rebind: the LOOP line is read, the bind_session request is
\* answered, its first line and headers are read, the successor is created
\* and started.
RebindSteps ==
    {"stream_loop", "bind_opened", "bind_first", "bind_header", "bind_thread", "bind_start"}

\* C2: on a LOOP line bind() asks for the session id the session had before
\* the LOOP, the rebind raises the bind count by exactly one, and no step of
\* the rebind changes the subscription table, the key counter or the session
\* id: nothing is reset on this path.
C2_RebindKeeps ==
    [][ev'.name \in RebindSteps =>
          /\ subscriptions' = subscriptions
          /\ current_subscription_key' = current_subscription_key
          /\ SESSION_ID \in DOMAIN session
          /\ SESSION_ID \in DOMAIN session'
          /\ session'[SESSION_ID] = session[SESSION_ID]
          /\ IF ev'.name = "stream_loop"
             THEN /\ hs'.sid = session[SESSION_ID]
                  /\ hs'.base = bind_counter
                  /\ bind_counter' = bind_counter
             ELSE bind_counter' = hs.base + 1]_vars

\* A rebind has been completed with two subscriptions registered.
C2_Witness ==
    /\ ev.name = "bind_start"
    /\ bind_counter = 1
    /\ DOMAIN subscriptions = {1, 2}
    /\ Readers = {2}

\* The reads of the stream loop.
StreamReads == {"stream_stop", "stream_skip", "stream_loop", "stream_data"}

\* A terminal message other than LOOP: nothing could be read, or the line
\* starts with ERROR, SYNC ERROR or END.
TerminalLine(m) ==
    \/ m = NONE
    \/ StartsWith(m, ERROR_CMD)
    \/ StartsWith(m, SYNC_ERROR_CMD)
    \/ StartsWith(m, END_CMD)

\* C3: whenever the stream thread reads a terminal message other than LOOP
\* (an empty or unreadable line, a line starting with ERROR, SYNC ERROR or
\* END), then in the state right after that step the thread has ended, the
\* session is empty, the subscription table is empty and the key counter is
\* 0, whatever was registered before.
C3_TerminalReset ==
    [][(ev'.name \in StreamReads /\ TerminalLine(ev'.line)) =>
          /\ threads'[ev'.t] = "done"
          /\ session' = EmptyDict
          /\ subscriptions' = EmptyDict
          /\ current_subscription_key' = 0]_vars

\* The thread has just ended on SYNC ERROR while the caller waits for the
\* answer to the DELETE of a key, which was registered when it was sent.
C3_Witness ==
    /\ ev.name = "stream_stop"
    /\ StartsWith(ev.line, SYNC_ERROR_CMD)
    /\ callerPc = "unsubscribe"
    /\ callerKey = 2
    /\ subscriptions = EmptyDict
    /\ current_subscription_key = 0

\* C4 (amended): keys are unique between two terminal stream resets only.
\* Every subscribe() takes the key counter plus one and registers under it;
\* no step but a terminal stream reset lowers the counter, and every one sets
\* it to 0, after which the keys start again at 1; subscribe() returns the
\* key it took, or 0 when such a reset came between its request and the
\* answer.
C4_KeysPerEpoch ==
    [][/\ ev'.name = "subscribe" =>
             /\ ev'.key = current_subscription_key + 1
             /\ current_subscription_key' = ev'.key
             /\ ev'.key \in DOMAIN subscriptions'
       /\ ev'.name = "subscribe_response" =>
             ev'.val = IF current_subscription_key = ev'.key THEN ev'.key ELSE 0
       /\ ev'.name = "stream_stop" => current_subscription_key' = 0
       /\ ev'.name \notin {"subscribe", "stream_stop"} =>
             current_subscription_key' = current_subscription_key]_vars

\* subscribe() has returned key 1 after it had returned key 2.
C4_Witness ==
    /\ ev.name = "subscribe_response"
    /\ ev.val = 1
    /\ maxReturned = 2

\* C4 as claimed: over the whole life of the client every key subscribe()
\* returns is larger than all the keys it returned before, so none is
\* returned twice.
C4_NeverReused ==
    [][(ev'.name = "subscribe_response" /\ ev'.val >= 1) =>
          ev'.val > maxReturned]_vars

\* C5 as claimed: subscribe() with a session registers the Subscription under
\* the key it takes before the ADD request goes out, returns that key
\* whatever the answer, and after an answer other than OK the registration is
\* still in the table.
C5_SubscribeKeeps ==
    [][/\ (ev'.name = "subscribe" /\ SESSION_ID \in DOMAIN session) =>
             /\ ev'.key \in DOMAIN subscriptions'
             /\ subscriptions'[ev'.key] = ev'.sub
             /\ ctl' = [op |-> OP_ADD, table |-> ev'.key,
                        session |-> session[SESSION_ID]]
       /\ ev'.name = "subscribe_response" =>
             /\ ev'.val = ev'.key
             /\ ev'.line /= OK_CMD => ev'.key \in DOMAIN subscriptions']_vars

\* C6 as claimed: unsubscribe(key) of a registered key sends one DELETE
\* request and removes the entry exactly when the answer is OK; of a key
\* that is not registered it sends nothing and changes nothing.
C6_Unsubscribe ==
    [][/\ ev'.name = "unsubscribe" =>
             IF ev'.key \in DOMAIN subscriptions
             THEN /\ ctl = NoCtl
                  /\ ctl' /= NoCtl
                  /\ ctl'.op = OP_DELETE
                  /\ ctl'.table = ev'.key
                  /\ subscriptions' = subscriptions
             ELSE /\ ctl' = ctl
                  /\ ev'.out = "return"
                  /\ subscriptions' = subscriptions
                  /\ current_subscription_key' = current_subscription_key
                  /\ session' = session
       /\ ev'.name = "unsubscribe_response" =>
             /\ ctl' = NoCtl
             /\ ev'.out = "return"
             /\ subscriptions' = IF ev'.line = OK_CMD
                                 THEN Del(subscriptions, ev'.key)
                                 ELSE subscriptions]_vars

\* C7 as claimed: disconnect() sends DESTROY before it waits for the stream
\* thread, and in the state in which it returns no stream thread is running
\* and the session and the subscription table are empty.
C7_DisconnectClears ==
    [][/\ ev'.name = "disconnect_response" => ctl.op = OP_DESTROY
       /\ (ev'.name \in {"disconnect_response", "disconnect_joined"}
             /\ ev'.out = "return") =>
             /\ \A t \in DOMAIN threads' : threads'[t] = "done"
             /\ session' = EmptyDict
             /\ subscriptions' = EmptyDict]_vars

\* C8 as claimed: disconnect() called with an empty session sends no
\* control request, raises nothing and changes nothing.
C8_DisconnectNoop ==
    [][(ev'.name = "disconnect" /\ session = EmptyDict) =>
          /\ ev'.out = "return"
          /\ ctl' = ctl
          /\ <<session, subscriptions, current_subscription_key, stream_connection,
               stream_connection_thread, bind_counter, control_url, threads>>'
              = <<session, subscriptions, current_subscription_key, stream_connection,
                  stream_connection_thread, bind_counter, control_url, threads>>]_vars

\* C9: a first line other than OK makes connect() raise IOError with no
\* thread started and nothing stored in the session, so that an empty session
\* stays empty; connect() starts a thread only when the first line was OK
\* and the blank line has been read, with every header line the server sent
\* before it stored in the session.
C9_Handshake ==
    [][/\ (ev'.name = "connect_first" /\ ev'.line /= OK_CMD) =>
             /\ ev'.out = "IOError"
             /\ callerPc' = "idle"
             /\ threads' = threads
             /\ session' = session
       /\ (callerPc \in {"connect_first", "connect_hdr"} /\ threads' /= threads) =>
             /\ hs.first = OK_CMD
             /\ ev'.line = <<>>
             /\ hs.stage >= 2
             /\ session' = session
             /\ Get(session, SESSION_ID) = hs.sid
             /\ hs.stage = 3 => Get(session, CONTROL_ADDRESS) = LB_ADDRESS
             /\ threads' = Append(threads, "loop")]_vars

\* A second connect() has failed on its first line, after the first one had
\* started a thread that has ended since on a terminal line: no thread was
\* added and the session is still empty.
C9_Witness ==
    /\ ev.name = "connect_first"
    /\ ev.out = "IOError"
    /\ nConnects = 2
    /\ Len(threads) = 1
    /\ session = EmptyDict

\* C10 as claimed: in merge mode every field for which the line has no token
\* or an empty one keeps the value cached for it (None for a field never
\* cached), and the values passed to the listeners are the merged cache of
\* the item.
C10_MergeRetains ==
    [][(ev'.name = "notify_update" /\ ev'.out = "return"
          /\ ~notify_new_values(ev'.sub)) =>
          LET s == ev'.sub
              pos == delivered'.pos
              old == IF pos \in DOMAIN items_map[s] THEN items_map[s][pos] ELSE EmptyDict
              new == items_map'[s][pos]
              tokens == Split(RStrip(ev'.line, {"\r", "\n"}), "|")
          IN /\ delivered'.values = new
             /\ \A i \in DOMAIN field_names(s) :
                   (i + 1 > Len(tokens) \/ tokens[i + 1] = <<>>) =>
                      Get(new, field_names(s)[i]) = Get(old, field_names(s)[i])]_vars

\* The tokens of an item line, the position first.
TokensOf(item_line) == Split(RStrip(item_line, {"\r", "\n"}), "|")

\* C11: for a Subscription in new-values-only mode (subB) the values passed
\* to the listeners are exactly the fields whose token is in the line and
\* not empty, each with the token as received, and the cache of the
\* Subscription is empty before and after every update: it is neither
\* written nor read.
C11_NewValuesOnly ==
    [][/\ items_map["subB"] = EmptyDict
       /\ items_map'["subB"] = EmptyDict
       /\ (ev'.name = "notify_update" /\ ev'.sub = "subB") =>
             IF ev'.out = "return"
             THEN LET tokens == TokensOf(ev'.line)
                      sent == {i \in DOMAIN field_names("subB") :
                                  i + 1 <= Len(tokens) /\ tokens[i + 1] /= <<>>}
                  IN /\ delivered'.sub = "subB"
                     /\ DOMAIN delivered'.values = {field_names("subB")[i] : i \in sent}
                     /\ \A i \in sent :
                           delivered'.values[field_names("subB")[i]] = tokens[i + 1]
             ELSE delivered' = NoEvent]_vars

\* The line '1|#' has been applied to subB after subA has cached values: the
\* listeners got {f1: '#'}, the token as received.
C11_Witness ==
    /\ ev.name = "notify_update"
    /\ ev.sub = "subB"
    /\ ev.line = <<"1", "|", "#">>
    /\ DOMAIN delivered.values = {"f1"}
    /\ delivered.values["f1"] = <<"#">>
    /\ items_map["subA"] /= EmptyDict

\* C12: a data line '<k>,<item line>' read by the stream thread is handed to
\* the Subscription registered under key k and to no other: that
\* Subscription's notify_update is applied to the item line and every other
\* Subscription is left as it was; when k is not registered, no cache
\* changes, no listener is called, and in both cases the thread stays in
\* its read loop.
C12_Routing ==
    [][ev'.name = "stream_data" =>
          /\ threads' = threads
          /\ threads'[ev'.t] = "loop"
          /\ \A tok \in {Split1(ev'.line, ",")} :
             \A k \in {IF Len(tok) = 2 /\ IsInt(tok[1]) THEN ParseInt(tok[1]) ELSE 0} :
                IF k \in DOMAIN subscriptions
                THEN \A target \in {subscriptions[k]} :
                     \A r \in {notify_update(target, items_map[target], tok[2])} :
                        /\ \A s \in Subs \ {target} : items_map'[s] = items_map[s]
                        /\ items_map'[target] = r.imap
                        /\ delivered' = r.event
                        /\ delivered'.sub \in {target, "none"}
                ELSE /\ items_map' = items_map
                     /\ delivered' = NoEvent]_vars

\* With keys 1 and 2 registered, the line '2,1|A' has been handed to subB,
\* registered under key 2, and the cache of subA is still empty.
C12_Witness ==
    /\ ev.name = "stream_data"
    /\ ev.line = <<"2", ",", "1", "|", "A">>
    /\ DOMAIN subscriptions = {1, 2}
    /\ subscriptions[2] = "subB"
    /\ delivered.sub = "subB"
    /\ items_map["subA"] = EmptyDict

\* A line that is no control line of the stream: it is not empty, not PROBE,
\* and does not start with ERROR, LOOP, SYNC ERROR, END or Preamble.
DataLine(m) ==
    /\ m /= NONE
    /\ m /= PROBE_CMD
    /\ \A c \in {ERROR_CMD, LOOP_CMD, SYNC_ERROR_CMD, END_CMD, PREAMBLE} : ~StartsWith(m, c)

\* C13: no data line ends the stream: after the read of a line that is no
\* control line (well formed or not, with a listener that raises or not) the
\* thread is still in its read loop, and the session, the set of registered
\* keys and the key counter are unchanged.
C13_DataNeverStops ==
    [][(ev'.name \in StreamReads /\ DataLine(ev'.line)) =>
          /\ threads' = threads
          /\ threads'[ev'.t] = "loop"
          /\ session' = session
          /\ DOMAIN subscriptions' = DOMAIN subscriptions
          /\ current_subscription_key' = current_subscription_key]_vars

\* A listener of the Subscription registered under key 1 has raised on the
\* line '1,1|A', and the thread is still reading.
C13_Witness ==
    /\ ev.name = "stream_data"
    /\ ev.out = "ListenerError"
    /\ ev.line = <<"1", ",", "1", "|", "A">>
    /\ 1 \in DOMAIN subscriptions
    /\ threads[ev.t] = "loop"

\* C14 as claimed: the reset the stream thread performs on a terminal message
\* other than LOOP also clears the control-link address and sets the bind
\* count to 0, so that the next connect() starts with bind count 0.
C14_ResetClearsBinds ==
    [][/\ (ev'.name \in StreamReads /\ TerminalLine(ev'.line)) =>
             /\ bind_counter' = 0
             /\ control_url' = NO_ATTR
       /\ (ev'.name = "connect" /\ session = EmptyDict /\ subscriptions = EmptyDict) =>
             bind_counter' = 0]_vars

\* The steps in which the caller reads the answer to a DELETE request.
DeleteAnswers == {"unsubscribe_response", "unsubscribe_all_response"}

\* C15 (amended): a key is in the table exactly when a subscribe() call has
\* taken it since the last terminal stream reset and no DELETE for it has
\* been answered OK since.  Step by step: a key enters the table only in a
\* subscribe() step, which registers the key it takes whether or not the ADD
\* request can be issued (it is issued exactly when the session has an id);
\* a key leaves the table only when OK is read for a DELETE of it or in a
\* terminal stream reset; OK read for a DELETE of a key leaves the key out
\* of the table, and a terminal reset leaves the table empty.
C15_TableSteps ==
    [][/\ \A k \in DOMAIN subscriptions' \ DOMAIN subscriptions :
             /\ ev'.name = "subscribe"
             /\ ev'.key = k
       /\ ev'.name = "subscribe" =>
             /\ ev'.key \in DOMAIN subscriptions'
             /\ IF SESSION_ID \in DOMAIN session
                THEN ctl' = [op |-> OP_ADD, table |-> ev'.key,
                             session |-> session[SESSION_ID]]
                ELSE ctl' = ctl /\ ev'.out = "KeyError"
       /\ \A k \in DOMAIN subscriptions \ DOMAIN subscriptions' :
             \/ /\ ev'.name \in DeleteAnswers
                /\ ctl.op = OP_DELETE
                /\ ctl.table = k
                /\ ev'.line = OK_CMD
             \/ /\ ev'.name = "stream_stop"
                /\ subscriptions' = EmptyDict
       /\ (ev'.name \in DeleteAnswers /\ ev'.line = OK_CMD) =>
             ctl.table \notin DOMAIN subscriptions'
       /\ (ev'.name \in DeleteAnswers /\ ev'.line /= OK_CMD) =>
             subscriptions' = subscriptions
       /\ ev'.name = "stream_stop" => subscriptions' = EmptyDict]_vars

\* After a terminal stream reset, subscribe() has registered key 1 with no
\* session to send the ADD request to.
C15_Witness ==
    /\ ev.name = "subscribe"
    /\ ev.out = "KeyError"
    /\ DOMAIN subscriptions = {1}
    /\ nConnects = 1
    /\ Len(threads) = 1
    /\ threads[1] = "done"
    /\ ctl = NoCtl

\* C15 as claimed, step by step: the table and the requests change together.
\* A key enters the table only in a step that issues the ADD request for
\* it, an ADD request is issued only for a key that is in the table, and a
\* key leaves the table only in the step that reads OK for a DELETE of it.
C15_TableIffAdded ==
    [][/\ \A k \in DOMAIN subscriptions' \ DOMAIN subscriptions :
             /\ ctl' /= ctl
             /\ ctl'.op = OP_ADD
             /\ ctl'.table = k
       /\ (ctl' /= ctl /\ ctl'.op = OP_ADD) => ctl'.table \in DOMAIN subscriptions'
       /\ \A k \in DOMAIN subscriptions \ DOMAIN subscriptions' :
             /\ ev'.name \in DeleteAnswers
             /\ ctl.op = OP_DELETE
             /\ ctl.table = k
             /\ ev'.line = OK_CMD]_vars

\* C16 as claimed: subscribe, unsubscribe and unsubscribe_all are atomic with
\* respect to the stream thread: its terminal reset never takes effect
\* between the request and the answer of one of these calls, so that no
\* DELETE answered OK finds its key gone (KeyError) and subscribe() always
\* returns the key it registered under.
C16_Atomic ==
    [][/\ ev'.name = "stream_stop" =>
             callerPc \notin {"subscribe", "unsubscribe", "unsubscribe_all"}
       /\ ev'.name \in DeleteAnswers => ev'.out /= "KeyError"
       /\ ev'.name = "subscribe_response" => ev'.val = ev'.key]_vars

C18_PositionsInRange ==
    /\ \A s \in Subs : DOMAIN items_map[s] \subseteq 1..Len(item_names(s))
    /\ delivered /= NoEvent => delivered.pos \in 1..Len(item_names(delivered.sub))
    /\ \A tok \in {Split(ev.line, "|")[1]} :
          (ev.name = "notify_update" /\ IsInt(tok)
             /\ ParseInt(tok) \notin 1..Len(item_names(ev.sub))) => delivered = NoEvent

\* C19: for every token and every previous value prev, _decode returns '' for
\* '$', None for '#', prev for the empty token, the token without its first
\* character when it is longer than one character and starts with '#' or '$'
\* (one marker only: '##' gives '#'), and the token itself otherwise.
C19_Decode ==
    ev.name = "_decode" =>
        \A v \in {ev.line} : \A r \in {ev.val.result} :
            /\ v = <<"$">> => r = <<>>
            /\ v = <<"#">> => r = NONE
            /\ v = <<>> => r = ev.val.last
            /\ (Len(v) > 1 /\ v[1] \in {"#", "$"}) => r = SubSeq(v, 2, Len(v))
            /\ (v /= <<>> /\ v[1] \notin {"#", "$"}) => r = v

\* '##' has been decoded, with a previous value, to '#'.
C19_Witness ==
    /\ ev.name = "_decode"
    /\ ev.line = <<"#", "#">>
    /\ ev.val.last = <<"A">>
    /\ ev.val.result = <<"#">>

\* C20 as claimed: in every reachable state in which no stream thread is
\* alive and no connect handshake is in progress, the session is empty and
\* the subscription table is empty (a refused bind_session included).
C20_IdleIsClean ==
    (NoLiveThread /\ callerPc \notin {"connect_first", "connect_hdr"}) =>
        (session = EmptyDict /\ subscriptions = EmptyDict)

====
